---- MODULE Spec2Model ----
(***************************************************************************)
(* Model of the extraction scripts of BTC_ETH_SOL_DE_Project:              *)
(*   src/extraction.py         daily walker  fetch_data  and its __main__  *)
(*   src/extraction_hourly.py  hourly walker fetch_hourly_data and main()  *)
(*                                                                         *)
(* Time is an abstract tick (one day for the daily walker, one hour for    *)
(* the hourly one); the local timezone is taken to be UTC, so that         *)
(* datetime.fromtimestamp / strptime / pd.to_datetime agree on a tick.     *)
(* One step of the model is one iteration of the walker's `while True`     *)
(* loop (the remote call and everything the iteration does with its        *)
(* answer), or one step of the calling script between two walks.           *)
(***************************************************************************)
EXTENDS Integers, Sequences, FiniteSets, TLC

VARIABLES
    mode,       \* which script runs: "daily" (extraction.py) or "hourly"
    pc,         \* position of the script: "call", "loop", "return", "except", "exit"
    symIdx,     \* index in Symbols of the symbol being walked
    fetched,    \* symbols whose walk returned a DataFrame to the script
    written,    \* symbols whose CSV file has been written
    status,     \* the walk: "idle", "running", "returned", "raised"
    data,       \* data / all_data: the records accumulated by the walk
    toTs,       \* the cursor sent with the next request
    retries,    \* the walker's local retry counter
    batch,      \* the page of the last answered request
    error,      \* the exception that left the walker ("none" if none did)
    lastErr,    \* the request error of the most recent remote call ("none" if it was answered)
    pageFails,  \* failed calls in a row for the page being requested
    pageLog,    \* log events of the except block for those failed calls, by message
    fetches,    \* answered requests of this walk
    auditLog,   \* warnings logged by the checks of the series after the loop
    exitCode,   \* exit status of the extraction script's process ("running" until it ends)
    \* the transformation scripts (transformation.py, transformation_hourly.py)
    tpc,        \* position of the script: "off", "file" (about to process a file),
                \* "done" (the file was processed), "exit"
    tIdx,       \* index of the file being processed
    inFile,     \* the input file being processed (a File, see NoFile / CsvFile)
    outFile,    \* the output file written for it (NoFile if none was written)
    saved,      \* symbols whose output file has been written in this run
    tErr,       \* error met while processing the file ("none" if none was)
    missingLogged,  \* symbols whose file was logged as missing required columns
    \* the loading scripts (loading.py, loading_pgsql.py, loading_hourly.py)
    lpc,        \* position of the script: "off", "file" (about to load a file), "exit"
    lIdx,       \* index of the file to load next
    DRY_RUN,    \* the DRY_RUN setting of the run
    pending,    \* rows inserted in the open transaction, as <<file index, row>>
    committed,  \* rows made durable by a commit
    commits,    \* files whose load executed connection.commit()
    rollbacks,  \* files whose load executed connection.rollback()
    insertOk,   \* files whose executemany inserted every row
    insertFail, \* files whose executemany raised on a row
    \* a walk repeated against a source that does not change
    source,     \* the timestamps of the records the source holds ({} if not modelled)
    earlier     \* what the earlier walk with the same arguments returned, if there was one

walkerVars == <<pc, symIdx, fetched, written, status, data, toTs, retries,
                batch, error, lastErr, pageFails, pageLog, fetches, auditLog,
                exitCode>>
transformVars == <<tpc, tIdx, inFile, outFile, saved, tErr, missingLogged>>
loadVars == <<lpc, lIdx, DRY_RUN, pending, committed, commits, rollbacks,
              insertOk, insertFail>>

replayVars == <<source, earlier>>
vars == <<mode, walkerVars, transformVars, replayVars, loadVars, replayVars>>

(***************************************************************************)
(* Bounds of the model.                                                    *)
(***************************************************************************)
EndTs == 3              \* end_boundary, in ticks; timestamps are 0..EndTs
StartTs == 1            \* start_boundary, in ticks
PageLimit == 2          \* most records in one page
MaxFetches == 2         \* most answered requests of one walk
MaxValidFetches == 5    \* the same, for a source that only sends valid pages

(***************************************************************************)
(* Program constants.                                                      *)
(***************************************************************************)
MAX_RETRIES_DAILY == 3
MAX_RETRIES_HOURLY == 5

Symbols == <<"BTC", "ETH", "SOL">>

required_keys == {"time", "high", "low", "open", "close", "volumefrom", "volumeto"}

\* requests.exceptions.RequestException raised by requests.get / raise_for_status:
\* ConnectionError and Timeout, HTTPError for a 5xx status, HTTPError for a 4xx status.
RequestErrors == {"ConnectionError", "HTTPError5xx", "HTTPError4xx"}

MAX_RETRIES == IF mode = "daily" THEN MAX_RETRIES_DAILY ELSE MAX_RETRIES_HOURLY

(***************************************************************************)
(* Records and pages of the remote source.                                 *)
(***************************************************************************)
\* A record is a mapping from the keys it carries to values; only `time` is read.
Rec(t, missing) ==
    [k \in required_keys \ missing |-> IF k = "time" THEN t ELSE 1]

validate_data(r) == \A k \in required_keys : k \in DOMAIN r

SetMax(S) == CHOOSE m \in S : \A x \in S : x <= m
SetMin(S) == CHOOSE m \in S : \A x \in S : m <= x

RECURSIVE Descending(_)
Descending(S) ==
    IF S = {} THEN <<>> ELSE <<SetMax(S)>> \o Descending(S \ {SetMax(S)})

Range(s) == {s[i] : i \in 1..Len(s)}

Reverse(s) == [i \in 1..Len(s) |-> s[Len(s) + 1 - i]]

\* The timestamps of a page, newest first (as the spec describes the source) or
\* oldest first (the code cannot tell which the source sends).
Ordered(T, order) == IF order = "desc" THEN Descending(T) ELSE Reverse(Descending(T))

PageOf(T, order, i, missing) ==
    LET ts == Ordered(T, order)
    IN  [j \in 1..Len(ts) |-> Rec(ts[j], IF j = i THEN missing ELSE {})]

\* Every page the source may answer a request for `time <= cursor` with: at most
\* PageLimit records of distinct timestamps, at most one of them lacking a key.
Pages(cursor) ==
    { PageOf(T, order, i, missing) :
        T \in {S \in SUBSET (0..cursor) : Cardinality(S) <= PageLimit},
        order \in {"desc", "asc"},
        i \in 0..PageLimit,
        missing \in {{"close"}, {"time"}} }

\* The pages of a well-behaved source: non-empty, newest first, every record valid.
ValidPages(cursor) ==
    { PageOf(T, "desc", 0, {}) :
        T \in {S \in SUBSET (0..cursor) : S # {} /\ Cardinality(S) <= PageLimit} }

\* Computed once: the pages for each cursor.
SourcePages == [c \in 0..EndTs |-> Pages(c)]
SourceValidPages == [c \in 0..EndTs |-> ValidPages(c)]

Times(p) == {p[j]["time"] : j \in {k \in 1..Len(p) : "time" \in DOMAIN p[k]}}

NewestFirst(p) ==
    /\ \A j \in 1..Len(p) : "time" \in DOMAIN p[j]
    /\ \A j \in 1..(Len(p) - 1) : p[j]["time"] > p[j + 1]["time"]

NoLog == [exception |-> 0, retrying |-> 0, exhausted |-> 0]

(***************************************************************************)
(* Initial state: the script is about to walk its first symbol.            *)
(***************************************************************************)
\* A file on disk: absent, or a CSV file read as a DataFrame, i.e. the column
\* names in order and the rows, each a mapping from column name to cell value.
NoFile == [exists |-> FALSE, cols |-> <<>>, rows |-> <<>>]
CsvFile(cols, rows) == [exists |-> TRUE, cols |-> cols, rows |-> rows]

\* No walk is being repeated: the source is the one of SourcePages.
ReplayOff ==
    /\ source = {}
    /\ earlier = <<>>

\* The transformation script is not running.
TransformOff ==
    /\ tpc = "off"
    /\ tIdx = 1
    /\ inFile = NoFile
    /\ outFile = NoFile
    /\ saved = {}
    /\ tErr = "none"
    /\ missingLogged = {}

\* The loading script is not running.
LoadOff ==
    /\ lpc = "off"
    /\ lIdx = 1
    /\ DRY_RUN = FALSE
    /\ pending = {}
    /\ committed = {}
    /\ commits = {}
    /\ rollbacks = {}
    /\ insertOk = {}
    /\ insertFail = {}

Init ==
    /\ ReplayOff
    /\ mode \in {"daily", "hourly"}
    /\ TransformOff
    /\ LoadOff
    /\ pc = "call"
    /\ symIdx = 1
    /\ fetched = {}
    /\ written = {}
    /\ status = "idle"
    /\ data = <<>>
    /\ toTs = EndTs
    /\ retries = 0
    /\ batch = <<>>
    /\ error = "none"
    /\ lastErr = "none"
    /\ pageFails = 0
    /\ pageLog = NoLog
    /\ fetches = 0
    /\ auditLog = {}
    /\ exitCode = "running"

\* A variant of line 94 that starts the walk one step after the end.
first_cursor_late == EndTs + 1

\* line 94 (hourly: line 58): toTs starts at the timestamp of end_date.
first_cursor == EndTs

\* fetch_data / fetch_hourly_data up to the loop: the locals of a new walk.
StartWalk ==
    /\ pc = "call"
    /\ pc' = "loop"
    /\ status' = "running"
    /\ data' = <<>>
    /\ toTs' = first_cursor
    /\ retries' = 0
    /\ batch' = <<>>
    /\ error' = "none"
    /\ lastErr' = "none"
    /\ pageFails' = 0
    /\ pageLog' = NoLog
    /\ fetches' = 0
    /\ auditLog' = {}
    /\ UNCHANGED <<mode, symIdx, fetched, written, exitCode, transformVars, loadVars,
                   replayVars>>

\* How the walk goes on after an iteration: "running" (next request), "returned"
\* (break, then the code after the loop returns the DataFrame) or "raised".
Leave(st, err) ==
    /\ status' = st
    /\ error' = err
    /\ pc' = CASE st = "running"  -> "loop"
               [] st = "returned" -> "return"
               [] st = "raised"   -> "except"

\* The counters of the page a call belongs to, when that call is answered.
Answered ==
    /\ lastErr' = "none"
    /\ pageFails' = 0
    /\ pageLog' = NoLog
    /\ fetches' = fetches + 1

(***************************************************************************)
(* The daily walker, src/extraction.py fetch_data.                         *)
(***************************************************************************)
\* line 118: the record whose time is compared with start_date.
boundary_record(p) == p[Len(p)]

\* A variant of the boundary test that also ends the walk on a record exactly at
\* the start.
before_start_le(t) == t <= StartTs

\* line 118 (hourly: line 81): the boundary test `<`, strictly before the start.
before_start(t) == t < StartTs

\* line 121: the record whose time becomes the next toTs.
cursor_record(p) == p[1]

\* A variant of the test of line 126 that gives up one failure earlier.
retries_exhausted_ge(r) == r >= MAX_RETRIES

\* line 126: the test that ends the retrying.
retries_exhausted(r) == r > MAX_RETRIES

\* A variant of line 127 that ends the loop with `break`, so that the code after
\* the loop returns what was accumulated.
reraise_break(e) == Leave("returned", "none")

\* line 127: `raise` leaves the walker with the request error.
reraise(e) == Leave("raised", e)

\* lines 106-122: a request that is answered with page p.
fetch_data_ok(p, cap) ==
    /\ mode = "daily"
    /\ pc = "loop"
    /\ fetches < cap
    /\ batch' = p
    /\ data' = data \o SelectSeq(p, validate_data)
    /\ Answered
    /\ IF Len(p) = 0
         THEN Leave("raised", "IndexError") /\ UNCHANGED <<toTs, retries>>
       ELSE IF "time" \notin DOMAIN boundary_record(p)
         THEN Leave("raised", "KeyError") /\ UNCHANGED <<toTs, retries>>
       ELSE IF before_start(boundary_record(p)["time"])
         THEN Leave("returned", "none") /\ UNCHANGED <<toTs, retries>>
       ELSE IF "time" \notin DOMAIN cursor_record(p)
         THEN Leave("raised", "KeyError") /\ UNCHANGED <<toTs, retries>>
       ELSE /\ toTs' = cursor_record(p)["time"]
            /\ retries' = 0
            /\ Leave("running", "none")
    /\ UNCHANGED <<auditLog, mode, symIdx, fetched, written, exitCode, transformVars,
                   loadVars, replayVars>>

\* A variant of the except block that appends the previous page once more.
fetch_data_except_again(e, cap) ==
    /\ mode = "daily"
    /\ pc = "loop"
    /\ fetches < cap
    /\ retries' = retries + 1
    /\ lastErr' = e
    /\ pageFails' = pageFails + 1
    /\ pageLog' = [pageLog EXCEPT !.exception = @ + 1]
    /\ data' = data \o SelectSeq(batch, validate_data)
    /\ IF retries_exhausted(retries + 1)
         THEN reraise(e)
         ELSE Leave("running", "none")
    /\ UNCHANGED <<toTs, batch, fetches, auditLog, mode, symIdx, fetched, written,
                   exitCode, transformVars, loadVars, replayVars>>

\* lines 123-128: a request that raises RequestException e.
fetch_data_except(e, cap) ==
    /\ mode = "daily"
    /\ pc = "loop"
    /\ fetches < cap
    /\ retries' = retries + 1
    /\ lastErr' = e
    /\ pageFails' = pageFails + 1
    /\ pageLog' = [pageLog EXCEPT !.exception = @ + 1]
    /\ IF retries_exhausted(retries + 1)
         THEN reraise(e)
         ELSE Leave("running", "none")
    /\ UNCHANGED <<data, toTs, batch, fetches, auditLog, mode, symIdx, fetched, written,
                   exitCode, transformVars, loadVars, replayVars>>

(***************************************************************************)
(* The hourly walker, src/extraction_hourly.py fetch_hourly_data.          *)
(***************************************************************************)
\* lines 81 and 84: data_chunk['time'].min(), which skips the NaT of a record
\* that came without `time`.
chunk_min(p) == SetMin(Times(p))

\* lines 97-107: the checks of the concatenated series after the loop, each
\* logging a warning: hours of start_date..end_date that no record carries, and
\* records that occur more than once.
series_audit(d) ==
    (IF (StartTs..EndTs) \ Times(d) # {} THEN {"missing_timestamps"} ELSE {})
    \cup (IF \E i, j \in 1..Len(d) : i < j /\ d[i] = d[j] THEN {"duplicates"} ELSE {})

\* lines 71-84: a request that is answered with page p. validate_hourly_data is
\* not called: pd.DataFrame(batch) keeps every record, a missing key as NaN.
fetch_hourly_data_ok(p, cap) ==
    /\ mode = "hourly"
    /\ pc = "loop"
    /\ fetches < cap
    /\ batch' = p
    /\ Answered
    /\ IF Times(p) = {}
         THEN \* no `time` column: data_chunk['time'] raises before the append
              /\ Leave("raised", "KeyError")
              /\ UNCHANGED <<data, toTs, auditLog>>
       ELSE IF before_start(chunk_min(p))
         THEN \* break, then the checks of lines 94-107 and the return
              /\ data' = data \o p
              /\ auditLog' = series_audit(data \o p)
              /\ Leave("returned", "none")
              /\ UNCHANGED toTs
       ELSE /\ data' = data \o p
            /\ toTs' = chunk_min(p)
            /\ Leave("running", "none")
            /\ UNCHANGED auditLog
    /\ UNCHANGED <<retries, mode, symIdx, fetched, written, exitCode, transformVars,
                   loadVars, replayVars>>

\* A variant of the except block that moves the cursor past the page whose
\* request failed.
fetch_hourly_data_except_skip(e, cap) ==
    /\ mode = "hourly"
    /\ pc = "loop"
    /\ fetches < cap
    /\ retries' = retries + 1
    /\ lastErr' = e
    /\ pageFails' = pageFails + 1
    /\ toTs' = IF toTs > 0 THEN toTs - 1 ELSE toTs
    /\ IF retries_exhausted(retries + 1)
         THEN /\ pageLog' = [pageLog EXCEPT !.exception = @ + 1, !.exhausted = @ + 1]
              /\ reraise(e)
         ELSE /\ pageLog' = [pageLog EXCEPT !.exception = @ + 1, !.retrying = @ + 1]
              /\ Leave("running", "none")
    /\ UNCHANGED <<data, batch, fetches, auditLog, mode, symIdx, fetched, written,
                   exitCode, transformVars, loadVars, replayVars>>

\* lines 85-92: a request that raises RequestException e.
fetch_hourly_data_except(e, cap) ==
    /\ mode = "hourly"
    /\ pc = "loop"
    /\ fetches < cap
    /\ retries' = retries + 1
    /\ lastErr' = e
    /\ pageFails' = pageFails + 1
    /\ IF retries_exhausted(retries + 1)
         THEN /\ pageLog' = [pageLog EXCEPT !.exception = @ + 1, !.exhausted = @ + 1]
              /\ reraise(e)
         ELSE /\ pageLog' = [pageLog EXCEPT !.exception = @ + 1, !.retrying = @ + 1]
              /\ Leave("running", "none")
    /\ UNCHANGED <<data, toTs, batch, fetches, auditLog, mode, symIdx, fetched, written,
                   exitCode, transformVars, loadVars, replayVars>>

(***************************************************************************)
(* The calling scripts: extraction.py fetch_all_crypto_data / __main__ and *)
(* extraction_hourly.py main.                                              *)
(***************************************************************************)
AllSymbols == {Symbols[i] : i \in 1..Len(Symbols)}

\* The walk of Symbols[symIdx] returned its DataFrame.
\* daily, lines 146-150 and 160-162: the three frames are written after the third
\* walk; hourly, lines 141-150: each frame is saved right after its walk.
MainReturn ==
    /\ pc = "return"
    /\ fetched' = fetched \cup {Symbols[symIdx]}
    /\ written' = IF mode = "hourly" THEN written \cup {Symbols[symIdx]}
                  ELSE IF symIdx = Len(Symbols) THEN AllSymbols
                  ELSE written
    /\ IF symIdx = Len(Symbols)
         THEN \* the script runs to its end: the interpreter exits with status 0
              /\ pc' = "exit"
              /\ exitCode' = "0"
              /\ UNCHANGED <<symIdx, status, data, toTs, retries, batch, error,
                             lastErr, pageFails, pageLog, fetches, auditLog>>
         ELSE /\ pc' = "call"
              /\ UNCHANGED exitCode
              /\ symIdx' = symIdx + 1
              \* the finished call's locals are gone
              /\ status' = "idle"
              /\ data' = <<>>
              /\ toTs' = EndTs
              /\ retries' = 0
              /\ batch' = <<>>
              /\ error' = "none"
              /\ lastErr' = "none"
              /\ pageFails' = 0
              /\ pageLog' = NoLog
              /\ fetches' = 0
              /\ auditLog' = {}
    /\ UNCHANGED <<mode, transformVars, loadVars, replayVars>>

\* daily lines 165-168, hourly lines 152-155: any exception ends the script. The
\* handler logs (and prints) the error and swallows it: nothing is raised again
\* and sys.exit is not called, so the interpreter exits with status 0.
MainExcept ==
    /\ pc = "except"
    /\ pc' = "exit"
    /\ exitCode' = "0"
    /\ UNCHANGED <<mode, symIdx, fetched, written, status, data, toTs, retries,
                   batch, error, lastErr, pageFails, pageLog, fetches, auditLog,
                   transformVars, loadVars, replayVars>>

Next ==
    \/ StartWalk
    \/ pc = "loop" /\ \E p \in SourcePages[toTs] : fetch_data_ok(p, MaxFetches)
    \/ \E e \in RequestErrors : fetch_data_except(e, MaxFetches)
    \/ pc = "loop" /\ \E p \in SourcePages[toTs] : fetch_hourly_data_ok(p, MaxFetches)
    \/ \E e \in RequestErrors : fetch_hourly_data_except(e, MaxFetches)
    \/ MainReturn
    \/ MainExcept

Spec == Init /\ [][Next]_vars

\* The same scripts against a source that answers every request with a valid page.
NextValid ==
    \/ StartWalk
    \/ pc = "loop" /\ \E p \in SourceValidPages[toTs] : fetch_data_ok(p, MaxValidFetches)
    \/ pc = "loop" /\ \E p \in SourceValidPages[toTs] : fetch_hourly_data_ok(p, MaxValidFetches)
    \/ MainReturn

SpecValid == Init /\ [][NextValid]_vars

(***************************************************************************)
(* A walk and its repetition with the same arguments, against a source     *)
(* that does not change between the requests: it holds the records of the  *)
(* timestamps in `source` and answers a request for `time <= cursor` with  *)
(* the PageLimit newest of them, newest first. Any request may fail.       *)
(***************************************************************************)
StaticPage(cursor) ==
    LET T == {t \in source : t <= cursor}
    IN  PageOf({t \in T : Cardinality({u \in T : u > t}) < PageLimit}, "desc", 0, {})

InitReplay ==
    /\ mode \in {"daily", "hourly"}
    /\ TransformOff
    /\ LoadOff
    /\ pc = "call"
    /\ symIdx = 1
    /\ fetched = {}
    /\ written = {}
    /\ status = "idle"
    /\ data = <<>>
    /\ toTs = EndTs
    /\ retries = 0
    /\ batch = <<>>
    /\ error = "none"
    /\ lastErr = "none"
    /\ pageFails = 0
    /\ pageLog = NoLog
    /\ fetches = 0
    /\ auditLog = {}
    /\ exitCode = "running"
    /\ source \in SUBSET (0..EndTs) \ {{}}
    /\ earlier = <<>>

\* The walk returned; the same call is made once more. What it returned is kept,
\* with the number of request errors the hourly walker counted on the way.
Rerun ==
    /\ pc = "return"
    /\ earlier = <<>>
    /\ earlier' = <<[series |-> data, failed |-> retries]>>
    /\ pc' = "call"
    /\ status' = "idle"
    /\ data' = <<>>
    /\ toTs' = EndTs
    /\ retries' = 0
    /\ batch' = <<>>
    /\ error' = "none"
    /\ lastErr' = "none"
    /\ pageFails' = 0
    /\ pageLog' = NoLog
    /\ fetches' = 0
    /\ auditLog' = {}
    /\ UNCHANGED <<mode, symIdx, fetched, written, exitCode, source,
                   transformVars, loadVars>>

NextReplay ==
    \/ StartWalk
    \/ fetch_data_ok(StaticPage(toTs), MaxValidFetches)
    \/ \E e \in RequestErrors : fetch_data_except(e, MaxValidFetches)
    \/ fetch_hourly_data_ok(StaticPage(toTs), MaxValidFetches)
    \/ \E e \in RequestErrors : fetch_hourly_data_except(e, MaxValidFetches)
    \/ Rerun

SpecReplay == InitReplay /\ [][NextReplay]_vars

TypeOK ==
    /\ mode \in {"daily", "hourly"}
    /\ pc \in {"off", "call", "loop", "return", "except", "exit"}
    /\ exitCode \in {"running", "0"}
    /\ tpc \in {"off", "file", "done", "exit", "clean", "cleaned"}
    /\ lpc \in {"off", "file", "exit"}
    /\ DRY_RUN \in BOOLEAN
    /\ symIdx \in 1..Len(Symbols)
    /\ status \in {"idle", "running", "returned", "raised"}
    /\ toTs \in 0..EndTs
    /\ retries \in 0..(MAX_RETRIES + 1)
    /\ error \in RequestErrors \cup {"none", "IndexError", "KeyError"}
    /\ lastErr \in RequestErrors \cup {"none"}

(***************************************************************************)
(* DataFrames of the transformation scripts.                               *)
(***************************************************************************)
DayLen == 2             \* ticks in one day; timestamps of a file are 0..MaxTime
MaxTime == 6            \* latest timestamp of an input row, in ticks
MaxRows == 2            \* most rows of an input file
MaxSeq == 100           \* most rows of a frame whose record ids are assigned

\* transformation.py lines 36-37, as day numbers on the model's scale
\* (day = tick \div DayLen): '2020-04-20' and '2024-01-03'.
START_DATE == 1
END_DATE == 2

Columns(df) == Range(df.cols)

\* data[c] = vals
WithColumn(df, c, vals) ==
    [df EXCEPT
        !.cols = IF c \in Range(df.cols) THEN df.cols ELSE Append(df.cols, c),
        !.rows = [i \in 1..Len(df.rows) |->
                    [k \in DOMAIN df.rows[i] \cup {c} |->
                        IF k = c THEN vals[i] ELSE df.rows[i][k]]]]

\* data.insert(loc, c, vals) with loc = 1: c becomes the second column
InsertSecond(df, c, vals) ==
    [WithColumn(df, c, vals) EXCEPT
        !.cols = IF df.cols = <<>> THEN <<c>>
                 ELSE <<Head(df.cols), c>> \o Tail(df.cols)]

\* data.drop(columns = S)
DropColumns(df, S) ==
    [df EXCEPT
        !.cols = SelectSeq(df.cols, LAMBDA c : c \notin S),
        !.rows = [i \in 1..Len(df.rows) |->
                    [k \in DOMAIN df.rows[i] \ S |-> df.rows[i][k]]]]

\* data.rename(columns = {from: to}); a column that is absent is ignored
RenameColumn(df, from, to) ==
    IF from \notin Range(df.cols) THEN df
    ELSE [df EXCEPT
            !.cols = [j \in 1..Len(df.cols) |->
                        IF df.cols[j] = from THEN to ELSE df.cols[j]],
            !.rows = [i \in 1..Len(df.rows) |->
                        [k \in (DOMAIN df.rows[i] \ {from}) \cup {to} |->
                            IF k = to THEN df.rows[i][from] ELSE df.rows[i][k]]]]

\* data[order]: the columns of `order`, in that order (KeyError if one is absent)
Reindex(df, order) ==
    [df EXCEPT
        !.cols = order,
        !.rows = [i \in 1..Len(df.rows) |->
                    [k \in Range(order) |-> df.rows[i][k]]]]

\* str(i): the decimal digits of a natural number
RECURSIVE str(_)
str(i) == IF i < 10 THEN <<i>> ELSE Append(str(i \div 10), i % 10)

\* s.zfill(width): zeros on the left up to the width, never a truncation
RECURSIVE zfill(_, _)
zfill(s, width) == IF Len(s) >= width THEN s ELSE zfill(<<0>> \o s, width)

\* int(): the number a digit string stands for
RECURSIVE int(_)
int(s) == IF s = <<>> THEN 0 ELSE 10 * int(SubSeq(s, 1, Len(s) - 1)) + s[Len(s)]

\* A cell of the time column that pd.to_datetime cannot parse is written -1.
parsable(t) == t >= 0

\* strftime('%Y-%m-%d') and strftime('%H') of a timestamp
date_of(t) == t \div DayLen
hour_of(t) == t % DayLen

\* '{:.2f}'.format(x): the number, given in thousandths, becomes the string of
\* its value rounded to two decimals, written here by its count of hundredths
\* (no cell is a tie, whose rounding depends on the binary float).
format_2f(x) == [cents |-> (x + 5) \div 10]

(***************************************************************************)
(* src/transformation.py                                                   *)
(***************************************************************************)
DailyRawColumns ==
    <<"time", "high", "low", "open", "volumefrom", "volumeto", "close",
      "conversionType", "conversionSymbol">>

\* The value a function returns or the exception it raises.
Returned(df) == [err |-> "none", df |-> df]
Raised(e) == [err |-> e, df |-> NoFile]

\* clean_daily_sol_data, lines 98-100: the rows that are kept
clean_keeps(row) ==
    row["open"] # 0 /\ row["high"] # 0 /\ row["low"] # 0 /\ row["close"] # 0

\* clean_daily_sol_data(csv_path): the file it leaves at csv_path, or its exception
clean_daily_sol_data(file) ==
    IF ~file.exists THEN Raised("FileNotFoundError")
    ELSE IF ~({"high", "low", "open", "close"} \subseteq Columns(file))
    THEN Raised("MissingColumns")   \* ValueError, lines 92-95
    ELSE Returned([file EXCEPT !.rows = SelectSeq(file.rows, clean_keeps)])

daily_id(prefix, i) == [symbol |-> prefix, infix |-> "", digits |-> zfill(str(i), 2)]

\* transformation.py line 152: the list comprehension over range(1, len + 1).
daily_record_id(df, crypto_prefix) ==
    WithColumn(df, "record_id",
               [i \in 1..Len(df.rows) |-> daily_id(crypto_prefix, i)])

\* A variant of the filter that leaves END_DATE itself out.
in_date_range_open(row) == row["date"] >= START_DATE /\ row["date"] < END_DATE

\* lines 181-184: the mask of the date filter, both comparisons inclusive.
in_date_range(row) == row["date"] >= START_DATE /\ row["date"] <= END_DATE

daily_order ==
    <<"record_id", "coin_symbol", "date", "open", "low", "high", "close",
      "trade_vol_native", "trade_vol_USD">>

\* lines 152-163 and 167: record ids, coin symbol, date, renames, number format
daily_columns(file, prefix) ==
    LET n == Len(file.rows)
        d1 == daily_record_id(file, prefix)
        d2 == WithColumn(d1, "coin_symbol", [i \in 1..n |-> prefix])
        d3 == WithColumn(d2, "date", [i \in 1..n |-> date_of(file.rows[i]["time"])])
        d4 == DropColumns(d3, {"time"})
        d5 == RenameColumn(RenameColumn(d4, "volumefrom", "trade_vol_native"),
                           "volumeto", "trade_vol_USD")
    IN  WithColumn(d5, "trade_vol_USD",
                   [i \in 1..n |-> format_2f(d5.rows[i]["trade_vol_USD"])])

\* transform_daily_crypto_data(csv_path, crypto_prefix): the file it writes, or
\* the exception it raises (every except clause raises again).
transform_daily_crypto_data(file, prefix) ==
    IF ~file.exists THEN Raised("FileNotFoundError")
    ELSE IF ~({"time", "volumefrom", "volumeto"} \subseteq Columns(file))
    THEN Raised("MissingColumns")   \* ValueError, lines 146-149
    ELSE IF \E i \in 1..Len(file.rows) : ~parsable(file.rows[i]["time"])
    THEN Raised("ValueError")
    ELSE IF ~({"conversionType", "conversionSymbol"} \subseteq Columns(file))
    THEN Raised("KeyError")
    ELSE IF ~(Range(daily_order) \subseteq Columns(daily_columns(file, prefix)))
    THEN Raised("KeyError")
    ELSE LET d6 == DropColumns(daily_columns(file, prefix),
                               {"conversionType", "conversionSymbol"})
             d7 == Reindex(d6, daily_order)
         IN  Returned([d7 EXCEPT !.rows = SelectSeq(d7.rows, in_date_range)])

(***************************************************************************)
(* src/transformation_hourly.py                                            *)
(***************************************************************************)
HourlyRawColumns == <<"time", "high", "low", "open", "close", "VOL_NATIVE", "VOL_USD">>

\* validate_data(data, required_columns, numeric_columns), lines 141-164: the
\* error it logs before it returns False, "none" when it returns True. Missing
\* values are only logged as a warning.
validate_data_hourly(df) ==
    IF ~(Range(HourlyRawColumns) \subseteq Columns(df)) THEN "MissingColumns"
    ELSE IF \E i \in 1..Len(df.rows) : \E c \in {"high", "low", "open", "close"} :
                df.rows[i][c] < 0
    THEN "NegativeValues"
    ELSE "none"

\* transform_time_column, lines 184-192: an exception is logged and the
\* DataFrame is returned as it is
transform_time_column(df) ==
    IF \E i \in 1..Len(df.rows) : ~parsable(df.rows[i]["time"])
    THEN df
    ELSE LET n == Len(df.rows)
             d1 == WithColumn(df, "date", [i \in 1..n |-> date_of(df.rows[i]["time"])])
             d2 == WithColumn(d1, "hour", [i \in 1..n |-> hour_of(df.rows[i]["time"])])
         IN  DropColumns(d2, {"time"})

hourly_id(coin_symbol, i) ==
    [symbol |-> coin_symbol, infix |-> "_H", digits |-> zfill(str(i), 5)]

\* generate_record_id, lines 212-219
generate_record_id(df, coin_symbol) ==
    WithColumn(df, "record_id",
               [i \in 1..Len(df.rows) |-> hourly_id(coin_symbol, i)])

hourly_order ==
    <<"record_id", "coin_symbol", "date", "hour", "open", "low", "high", "close",
      "hr_trade_vol_native", "hr_trade_vol_USD">>

\* rename_and_reorder_columns, lines 241-264: insert and rename change the
\* DataFrame in place; when the selection of the columns raises, the exception
\* is logged and the DataFrame changed so far is returned
rename_and_reorder_columns(df, coin_symbol) ==
    LET n == Len(df.rows)
        d1 == InsertSecond(df, "coin_symbol", [i \in 1..n |-> coin_symbol])
        d2 == RenameColumn(RenameColumn(d1, "VOL_NATIVE", "hr_trade_vol_native"),
                           "VOL_USD", "hr_trade_vol_USD")
    IN  IF Range(hourly_order) \subseteq Columns(d2) THEN Reindex(d2, hourly_order)
        ELSE d2

\* transform_hourly_data(csv_path, coin_symbol): the file it writes, or why it
\* returned before writing one. read_csv_file gives an empty DataFrame for a
\* file it cannot read.
transform_hourly_data(file, coin_symbol) ==
    IF ~file.exists \/ file.rows = <<>> THEN Raised("NoData")
    ELSE IF validate_data_hourly(file) # "none" THEN Raised(validate_data_hourly(file))
    ELSE Returned(rename_and_reorder_columns(
                    generate_record_id(transform_time_column(file), coin_symbol),
                    coin_symbol))

(***************************************************************************)
(* Input files of the transformation scripts.                              *)
(***************************************************************************)
OHLC == {"open", "high", "low", "close"}

\* The price cells of a row: all non-zero, all zero, or only `open` zero.
Priced == [c \in OHLC |-> 1]
AllZero == [c \in OHLC |-> 0]
OpenZero == [c \in OHLC |-> IF c = "open" THEN 0 ELSE 1]

\* The volume cells are written in thousandths: 10 stands for 0.01, 12 for 0.012.
Volumes == {"volumefrom", "volumeto", "VOL_NATIVE", "VOL_USD"}

\* Rows with a cell of its own kind: a negative price, negative volumes, and
\* volumes with a third decimal.
NegativeOpen == [c \in OHLC \cup Volumes |->
                    IF c = "open" THEN -1 ELSE IF c \in OHLC THEN 1 ELSE 10]
NegativeVolume == [c \in OHLC \cup Volumes |-> IF c \in OHLC THEN 1 ELSE -10]
FineVolume == [c \in OHLC \cup Volumes |-> IF c \in OHLC THEN 1 ELSE 12]

RawRow(cols, t, price) ==
    [c \in Range(cols) |->
        IF c = "time" THEN t
        ELSE IF c \in DOMAIN price THEN price[c]
        ELSE IF c = "conversionType" THEN "direct"
        ELSE IF c = "conversionSymbol" THEN ""
        ELSE 10]

Without(cols, c) == SelectSeq(cols, LAMBDA x : x # c)

\* Every sequence of at most MaxRows elements of S
SeqsUpTo(S) == UNION {[1..n -> S] : n \in 0..MaxRows}

\* The files a script may find: absent, or at most MaxRows rows with the
\* columns `cols`, timestamps in `times` and price cells in `prices`.
Files(cols, times, prices) ==
    {NoFile} \cup
    {CsvFile(cols, rows) :
        rows \in SeqsUpTo({RawRow(cols, t, p) : t \in times, p \in prices})}

\* The same with the rows of a kind of their own, dated on START_DATE.
FilesWith(cols, times, prices, special) ==
    {NoFile} \cup
    {CsvFile(cols, rows) :
        rows \in SeqsUpTo({RawRow(cols, t, p) : t \in times, p \in prices}
                          \cup {RawRow(cols, DayLen * START_DATE, p) : p \in special})}

DailyInputs ==
    UNION {FilesWith(Without(DailyRawColumns, c), (-1)..MaxTime, {Priced, AllZero},
                     {NegativeOpen, NegativeVolume, FineVolume}) :
            c \in {"none", "time", "conversionType"}}

HourlyInputs ==
    UNION {FilesWith(Without(HourlyRawColumns, c), (-1)..MaxTime, {Priced},
                     {NegativeOpen, NegativeVolume, FineVolume}) :
            c \in {"none", "time", "VOL_USD"}}

CleanInputs == Files(DailyRawColumns, 0..MaxTime, {Priced, AllZero, OpenZero})

(***************************************************************************)
(* The transformation scripts.                                             *)
(***************************************************************************)
\* transformation.py lines 208-212: the keys of file_paths_and_prefixes
file_paths == <<"btc_daily_data.csv", "eth_daily_data.csv", "sol_daily_data.csv">>

\* What the script keeps of a call's result.
Outcome(r, prefix) ==
    /\ outFile' = r.df
    /\ tErr' = r.err
    /\ saved' = IF r.err = "none" THEN saved \cup {prefix} ELSE saved
    /\ missingLogged' = IF r.err = "MissingColumns" THEN missingLogged \cup {prefix}
                        ELSE missingLogged

\* transformation.py __main__, lines 215-231: one iteration of the loop over the
\* files. An exception is logged and the loop goes on with the next file.
transformation_main(input) ==
    /\ mode = "daily"
    /\ tpc = "file"
    /\ LET file_path == file_paths[tIdx]
           prefix == Symbols[tIdx]
           cleaned == IF file_path = "sol_data.csv"
                      THEN clean_daily_sol_data(input)
                      ELSE Returned(input)
       IN  /\ inFile' = IF cleaned.err = "none" THEN cleaned.df ELSE input
           /\ \E r \in {IF cleaned.err # "none" THEN cleaned
                         ELSE transform_daily_crypto_data(cleaned.df, prefix)} :
                  Outcome(r, prefix)
    /\ tpc' = "done"
    /\ UNCHANGED <<mode, walkerVars, loadVars, replayVars, tIdx>>

\* transformation_hourly.py __main__, lines 338-340: one of the three calls.
transformation_hourly_main(input) ==
    /\ mode = "hourly"
    /\ tpc = "file"
    /\ inFile' = input
    /\ \E r \in {transform_hourly_data(input, Symbols[tIdx])} :
            Outcome(r, Symbols[tIdx])
    /\ tpc' = "done"
    /\ UNCHANGED <<mode, walkerVars, loadVars, replayVars, tIdx>>

\* The same step of a script that stops at the first file that failed.
transformation_next_stop ==
    /\ tpc = "done"
    /\ IF tIdx = Len(Symbols) \/ tErr # "none"
         THEN tpc' = "exit" /\ UNCHANGED tIdx
         ELSE tpc' = "file" /\ tIdx' = tIdx + 1
    /\ inFile' = NoFile
    /\ outFile' = NoFile
    /\ tErr' = "none"
    /\ UNCHANGED <<mode, walkerVars, loadVars, replayVars, saved, missingLogged>>

\* After the file of index tIdx: the next file or the end of the script; the
\* DataFrame of the call that returned is gone.
transformation_next ==
    /\ tpc = "done"
    /\ IF tIdx = Len(Symbols)
         THEN tpc' = "exit" /\ UNCHANGED tIdx
         ELSE tpc' = "file" /\ tIdx' = tIdx + 1
    /\ inFile' = NoFile
    /\ outFile' = NoFile
    /\ tErr' = "none"
    /\ UNCHANGED <<mode, walkerVars, loadVars, replayVars, saved, missingLogged>>

\* The extraction script is not running.
WalkerOff ==
    /\ pc = "off"
    /\ symIdx = 1
    /\ fetched = {}
    /\ written = {}
    /\ status = "idle"
    /\ data = <<>>
    /\ toTs = EndTs
    /\ retries = 0
    /\ batch = <<>>
    /\ error = "none"
    /\ lastErr = "none"
    /\ pageFails = 0
    /\ pageLog = NoLog
    /\ fetches = 0
    /\ auditLog = {}
    /\ exitCode = "running"

InitTransform ==
    /\ ReplayOff
    /\ mode \in {"daily", "hourly"}
    /\ WalkerOff
    /\ LoadOff
    /\ tpc = "file"
    /\ tIdx = 1
    /\ inFile = NoFile
    /\ outFile = NoFile
    /\ saved = {}
    /\ tErr = "none"
    /\ missingLogged = {}

\* The input file is only read by a script that is about to process a file.
NextTransform ==
    \/ tpc = "file" /\ \E input \in DailyInputs : transformation_main(input)
    \/ tpc = "file" /\ \E input \in HourlyInputs : transformation_hourly_main(input)
    \/ transformation_next

SpecTransform == InitTransform /\ [][NextTransform]_vars

\* clean_daily_sol_data called on a file that exists, as the script's docstring
\* (lines 14-16) describes the first step for the Solana file.
InitClean ==
    /\ ReplayOff
    /\ mode = "daily"
    /\ WalkerOff
    /\ LoadOff
    /\ tpc = "clean"
    /\ tIdx = Len(Symbols)
    /\ inFile \in CleanInputs \ {NoFile}
    /\ outFile = NoFile
    /\ saved = {}
    /\ tErr = "none"
    /\ missingLogged = {}

\* The call: the file is rewritten in place; outFile holds what it held before.
CleanCall ==
    /\ tpc = "clean"
    /\ tpc' = "cleaned"
    /\ outFile' = inFile
    /\ inFile' = clean_daily_sol_data(inFile).df
    /\ tErr' = clean_daily_sol_data(inFile).err
    /\ UNCHANGED <<mode, walkerVars, loadVars, replayVars, tIdx, saved, missingLogged>>

SpecClean == InitClean /\ [][CleanCall]_vars

(***************************************************************************)
(* The assignment of record ids on its own, for frames of up to MaxSeq     *)
(* rows: transformation.py line 152, transformation_hourly.py line 214.    *)
(***************************************************************************)
IdFrames == {CsvFile(<<"time">>, [i \in 1..n |-> [time |-> i]]) : n \in 1..MaxSeq}

InitIds ==
    /\ ReplayOff
    /\ mode \in {"daily", "hourly"}
    /\ WalkerOff
    /\ LoadOff
    /\ tpc = "ids"
    /\ tIdx \in 1..Len(Symbols)
    /\ inFile \in IdFrames
    /\ outFile = NoFile
    /\ saved = {}
    /\ tErr = "none"
    /\ missingLogged = {}

AssignIds ==
    /\ tpc = "ids"
    /\ tpc' = "assigned"
    /\ outFile' = IF mode = "daily"
                  THEN daily_record_id(inFile, Symbols[tIdx])
                  ELSE generate_record_id(inFile, Symbols[tIdx])
    /\ UNCHANGED <<mode, walkerVars, loadVars, replayVars, tIdx, inFile, saved, tErr,
                   missingLogged>>

SpecIds == InitIds /\ [][AssignIds]_vars

(***************************************************************************)
(* The loading scripts: src/loading.py, src/loading_pgsql.py (mode "daily") *)
(* and src/loading_hourly.py (mode "hourly").                              *)
(***************************************************************************)
\* The file a load may find: missing, unreadable by pd.read_csv, or `rows`
\* rows of which the insert of row `failAt` raises (0: none does).
LoadFiles ==
    {[found |-> FALSE, readable |-> FALSE, rows |-> 0, failAt |-> 0],
     [found |-> TRUE, readable |-> FALSE, rows |-> 0, failAt |-> 0]}
    \cup UNION {{[found |-> TRUE, readable |-> TRUE, rows |-> n, failAt |-> k] :
                    k \in 0..n} : n \in 0..MaxRows}

\* The same choice in a script that commits whatever DRY_RUN says.
end_transaction_commit(dry) == "commit"

\* loading_pgsql.py lines 89-94: after executemany returned
end_transaction(dry) == IF dry THEN "rollback" ELSE "commit"

\* The rows of file i that executemany inserted before it returned or raised.
Inserted(i, f) ==
    {<<i, r>> : r \in 1..(IF f.failAt = 0 THEN f.rows ELSE f.failAt - 1)}

\* The load returns before it touches the connection.
LoadReturnsEarly ==
    UNCHANGED <<pending, committed, commits, rollbacks, insertOk, insertFail>>

\* except Exception: db_connection.rollback()
LoadExcept ==
    /\ pending' = {}
    /\ rollbacks' = rollbacks \cup {lIdx}
    /\ UNCHANGED <<committed, commits>>

\* load_csv_to_db / load_csv_to_db_hourly, one call for the file of index lIdx
load_csv_to_db(f) ==
    /\ lpc = "file"
    /\ lIdx <= Len(Symbols)
    /\ lIdx' = lIdx + 1
    /\ IF ~f.found
         THEN LoadReturnsEarly
         ELSE IF mode = "hourly" /\ (~f.readable \/ f.rows = 0)
         THEN \* loading_hourly.py lines 150-154: data is None or data.empty
              LoadReturnsEarly
         ELSE IF ~f.readable
         THEN \* pd.read_csv raises inside the try block
              LoadExcept /\ UNCHANGED <<insertOk, insertFail>>
         ELSE IF f.failAt # 0
         THEN \* executemany raises: the rows before the failing one were inserted
              LoadExcept /\ insertFail' = insertFail \cup {lIdx} /\ UNCHANGED insertOk
         ELSE /\ insertOk' = insertOk \cup {lIdx}
              /\ pending' = {}
              /\ UNCHANGED insertFail
              /\ IF end_transaction(DRY_RUN) = "rollback"
                   THEN /\ rollbacks' = rollbacks \cup {lIdx}
                        /\ UNCHANGED <<committed, commits>>
                   ELSE /\ commits' = commits \cup {lIdx}
                        /\ committed' = committed \cup pending \cup Inserted(lIdx, f)
                        /\ UNCHANGED rollbacks
    /\ UNCHANGED <<mode, walkerVars, transformVars, replayVars, lpc, DRY_RUN>>

\* After the last load: loading_pgsql.py lines 137-142 (rollback if DRY_RUN),
\* loading_hourly.py line 199 and loading.py's `with` block (the connection is
\* closed); what is still pending is never committed.
loading_main_end ==
    /\ lpc = "file"
    /\ lIdx = Len(Symbols) + 1
    /\ lpc' = "exit"
    /\ pending' = {}
    /\ UNCHANGED <<mode, walkerVars, transformVars, replayVars, lIdx, DRY_RUN, committed,
                   commits, rollbacks, insertOk, insertFail>>

InitLoad ==
    /\ ReplayOff
    /\ mode \in {"daily", "hourly"}
    /\ WalkerOff
    /\ TransformOff
    /\ lpc = "file"
    /\ lIdx = 1
    /\ DRY_RUN \in BOOLEAN
    /\ pending = {}
    /\ committed = {}
    /\ commits = {}
    /\ rollbacks = {}
    /\ insertOk = {}
    /\ insertFail = {}

NextLoad ==
    \/ \E f \in LoadFiles : load_csv_to_db(f)
    \/ loading_main_end

SpecLoad == InitLoad /\ [][NextLoad]_vars

(***************************************************************************)
(* Properties.                                                             *)
(***************************************************************************)
Aborted == status = "raised" /\ error \in RequestErrors


\* C1 (walker termination): against a source that answers every request with a
\* non-empty, newest-first page of valid records with time <= cursor, every walk
\* ends after finitely many fetches. A running walk is steered by its cursor alone,
\* and the cursor of a request is EndTs or a timestamp in StartTs..EndTs, so the
\* walks all end iff none sends the same cursor twice, that is iff no walk has
\* more than EndTs - StartTs + 1 answered requests.
C1_WalkTerminates == fetches <= EndTs - StartTs + 1

\* C2 (bounded retry), as claimed: a page whose every attempt fails gets exactly
\* MAX_RETRIES remote calls, never more, and the walk then fails with the error of
\* the last attempt.
C2_ExactlyMaxRetriesCalls ==
    /\ pageFails <= MAX_RETRIES
    /\ Aborted => (pageFails = MAX_RETRIES /\ error = lastErr)

\* C2 (bounded retry), amended: a page never gets more than MAX_RETRIES + 1 failed
\* calls; the walk keeps running while its counter is at most MAX_RETRIES and fails,
\* with the error of the last attempt, on the failure that brings the counter to
\* MAX_RETRIES + 1: after exactly MAX_RETRIES + 1 calls for the page in the daily
\* walker, whose counter counts the failures of the current page only.
C2_MaxRetriesPlusOneCalls ==
    /\ pageFails <= MAX_RETRIES + 1
    /\ pageFails <= retries
    /\ (status = "running" => retries <= MAX_RETRIES)
    /\ Aborted => /\ retries = MAX_RETRIES + 1
                  /\ error = lastErr
                  /\ (mode = "daily" => pageFails = MAX_RETRIES + 1)

\* C2 witness: a walk that fetched a page and then failed on the next one after
\* MAX_RETRIES + 1 failed calls in a row.
C2_Witness ==
    /\ Aborted
    /\ fetches >= 1
    /\ pageFails = MAX_RETRIES + 1

\* C3 (permanent failures are not retried): after a remote call answered with HTTP
\* 4xx the walk has failed; it is never waiting to send the request again.
C3_PermanentNotRetried == lastErr = "HTTPError4xx" => status = "raised"

\* C4 (attempts are scoped per page): after every successfully fetched page the
\* retry counter is zero, so a walk fails only on a page that itself failed
\* MAX_RETRIES times in a row, whatever earlier pages suffered.
C4_CounterResetPerPage ==
    /\ (status = "running" /\ lastErr = "none" /\ fetches >= 1) => retries = 0
    /\ Aborted => pageFails >= MAX_RETRIES

\* C5 (recovery from transient failures): a page that failed fewer than MAX_RETRIES
\* times in a row does not abort the walk, and every failed attempt has exactly one
\* "Request exception" log event.
C5_RecoversBelowMaxRetries ==
    /\ pageLog.exception = pageFails
    /\ (status = "raised" /\ error \in {"ConnectionError", "HTTPError5xx"})
           => pageFails >= MAX_RETRIES

\* C6 (no partial result): once the retries of a walk are exhausted the walker has
\* raised, it has returned no series to the script, and no file of that symbol is
\* written, however many pages were accumulated.
C6_NoPartialResult ==
    (retries > MAX_RETRIES \/ status = "raised")
        => /\ status = "raised"
           /\ pc \in {"except", "exit"}
           /\ Symbols[symIdx] \notin fetched
           /\ Symbols[symIdx] \notin written

\* C6 witness: the script has ended on the failed walk of its second symbol, which
\* had accumulated records before its retries ran out.
C6_Witness ==
    /\ Aborted
    /\ pc = "exit"
    /\ symIdx = 2
    /\ Len(data) > 0

\* C7 (cursor advance): when a newest-first page does not end the walk, the cursor
\* of the next request is the earliest timestamp of that page.
C7_CursorIsEarliest ==
    [][(fetches' = fetches + 1 /\ status' = "running" /\ NewestFirst(batch'))
          => toTs' = SetMin(Times(batch'))]_vars

\* C8 (empty page is Done): an empty page ends the walk in Done: the walker returns
\* what it has accumulated and raises nothing.
C8_EmptyPageIsDone ==
    (fetches >= 1 /\ batch = <<>>) => (status = "returned" /\ error = "none")

\* C9 (an invalid record never aborts the walk): after a non-empty page with a
\* record lacking a required key, the walk goes on or is Done, the accumulated
\* series ends with the page's valid records and holds none of its invalid ones.
C9_InvalidRecordNotFatal ==
    (fetches >= 1 /\ batch # <<>> /\ lastErr = "none")
        => LET kept == SelectSeq(batch, validate_data)
           IN  /\ status \in {"running", "returned"}
               /\ Len(data) >= Len(kept)
               /\ SubSeq(data, Len(data) - Len(kept) + 1, Len(data)) = kept
               /\ \A j \in 1..Len(batch) :
                      ~validate_data(batch[j]) => batch[j] \notin Range(data)

\* C10 (returned records are structurally valid): every record of the series a
\* completed walk returns carries all seven required keys.
C10_ReturnedRecordsValid ==
    status = "returned" => \A i \in 1..Len(data) : validate_data(data[i])

\* C11 (no duplicate observation): the series a completed walk returns holds no two
\* records with the same timestamp, the record at a page boundary included.
C11_NoDuplicateTimestamps ==
    status = "returned"
        => \A i \in 1..Len(data) : \A j \in 1..Len(data) :
               (i # j /\ "time" \in DOMAIN data[i] /\ "time" \in DOMAIN data[j])
                   => data[i]["time"] # data[j]["time"]

\* C17 (a run continues after a fatal error on one symbol): when the script has
\* ended, every symbol was walked and every symbol whose walk returned a series
\* has its file written.
C17_RunContinuesAfterFailure ==
    (pc = "exit" /\ error \in RequestErrors \cup {"none"})
        => (symIdx = Len(Symbols) /\ fetched \subseteq written)

\* C18 (partial failure is signalled): a script that has ended after the walk of
\* a symbol failed has a non-zero exit status; the status is 0 only if every
\* symbol's file was written.
C18_PartialFailureSignalled ==
    (pc = "exit" /\ exitCode = "0" /\ error \in RequestErrors \cup {"none"})
        => (status # "raised" /\ written = AllSymbols)

(***************************************************************************)
(* Properties of the transformation scripts.                               *)
(***************************************************************************)
\* The call for the file of index tIdx has returned and wrote an output file.
Wrote == tpc = "done" /\ outFile.exists

\* The sequence number of the record id of row i of the output file.
SeqNo(i) == int(outFile.rows[i]["record_id"].digits)

\* C12 (record ids are exactly 1..N): in every output file of N rows the
\* sequence numbers of record_id are 1, 2, ..., N in row order, also when
\* the date-range filter removed rows.
C12_RecordIdsAreOneToN ==
    (Wrote /\ "record_id" \in Columns(outFile))
        => \A i \in 1..Len(outFile.rows) : SeqNo(i) = i

\* The input file is a series as a backward walk assembles it: newest first.
BackwardSeries ==
    /\ inFile.exists
    /\ "time" \in Columns(inFile)
    /\ \A i \in 1..(Len(inFile.rows) - 1) :
            inFile.rows[i]["time"] > inFile.rows[i + 1]["time"]

\* The time of row i of the output file: its date and, in hourly files, hour.
OutTime(i) ==
    outFile.rows[i]["date"] * DayLen
        + (IF "hour" \in Columns(outFile) THEN outFile.rows[i]["hour"] ELSE 0)

\* C13 (chronological order): the rows of every output file written from a
\* series fetched backward in time are in non-decreasing order of date (and
\* hour), so that record ids ascend with time.
C13_ChronologicalOrder ==
    (Wrote /\ BackwardSeries /\ "date" \in Columns(outFile))
        => \A i \in 1..(Len(outFile.rows) - 1) : OutTime(i) <= OutTime(i + 1)

\* The docstring of clean_daily_sol_data: the rows it is to remove.
AllFourZero(row) ==
    row["open"] = 0 /\ row["high"] = 0 /\ row["low"] = 0 /\ row["close"] = 0

NotAllFourZero(row) == ~AllFourZero(row)

\* C14 (degenerate-zero cleaning): clean_daily_sol_data leaves exactly the rows
\* that are not all four zero, unchanged and in their original order.
C14_CleanRemovesAllZeroOnly ==
    (tpc = "cleaned" /\ tErr = "none")
        => inFile.rows = SelectSeq(outFile.rows, NotAllFourZero)

\* C15 (cleaning precedes normalization): the output the daily script writes
\* for the Solana file holds no row whose four price fields are all zero.
C15_SolCleanedBeforeTransform ==
    (Wrote /\ mode = "daily" /\ Symbols[tIdx] = "SOL")
        => \A i \in 1..Len(outFile.rows) : ~AllFourZero(outFile.rows[i])

\* The columns of a complete output file of the script.
CanonicalColumns == IF mode = "daily" THEN daily_order ELSE hourly_order

\* C16 (all-or-nothing output): a file written for a symbol carries the
\* canonical columns, all of them and no raw column.
C16_AllOrNothingOutput ==
    Wrote => outFile.cols = CanonicalColumns

\* The columns the script reads from its input file.
RawColumns == IF mode = "daily" THEN DailyRawColumns ELSE HourlyRawColumns

\* The input file exists and lacks a raw column.
LacksColumn == inFile.exists /\ ~(Range(RawColumns) \subseteq Columns(inFile))

\* The input file has every raw column, a time in every row and, for the
\* hourly script, at least one row and no negative price.
GoodInput ==
    /\ inFile.exists
    /\ Range(RawColumns) \subseteq Columns(inFile)
    /\ \A i \in 1..Len(inFile.rows) : parsable(inFile.rows[i]["time"])
    /\ mode = "hourly" => inFile.rows # <<>> /\ validate_data_hourly(inFile) = "none"

\* C19 (schema mismatch is fatal for one symbol only): a symbol whose input file
\* lacks a raw column gets no output file; a symbol whose input is good gets its
\* output whatever happened to the symbols before it; and the script only ends
\* after the last symbol.
C19_SchemaMismatchOneSymbolOnly ==
    /\ (tpc = "done" /\ LacksColumn)
            => (~outFile.exists /\ Symbols[tIdx] \notin saved /\ tErr # "none")
    /\ (tpc = "done" /\ GoodInput)
            => (outFile.exists /\ Symbols[tIdx] \in saved)
    /\ tpc = "exit" => tIdx = Len(Symbols)

\* ETH was logged as missing required columns and has no output; BTC before it
\* and SOL after it, with a good input, have theirs.
C19_Witness ==
    /\ tpc = "done"
    /\ Symbols[tIdx] = "SOL"
    /\ "ETH" \in missingLogged
    /\ saved = {"BTC", "SOL"}
    /\ GoodInput
    /\ outFile.exists

(***************************************************************************)
(* Properties of the loading scripts.                                      *)
(***************************************************************************)
\* The files whose load has returned.
Loaded == 1..(lIdx - 1)

\* The committed rows of file i.
CommittedOf(i) == {row \in committed : row[1] = i}

\* C20 (sink transaction): for every load, commit is executed iff DRY_RUN is
\* off and every insert of the file succeeded; if DRY_RUN is on or an insert
\* raised, the transaction was rolled back and no row of the file is committed;
\* with DRY_RUN on, commit is never executed; no load leaves a transaction open.
C20_SinkTransaction ==
    /\ \A i \in Loaded : i \in commits <=> (~DRY_RUN /\ i \in insertOk)
    /\ \A i \in Loaded :
            ((DRY_RUN /\ i \in insertOk) \/ i \in insertFail)
                => (i \in rollbacks /\ CommittedOf(i) = {})
    /\ \A i \in Loaded : DRY_RUN => CommittedOf(i) = {}
    /\ DRY_RUN => (commits = {} /\ committed = {})
    /\ pending = {}

\* With DRY_RUN off, the load of one file was rolled back after a failing
\* insert and the load of a later file committed its rows.
C20_Witness ==
    /\ ~DRY_RUN
    /\ \E i \in insertFail : \E j \in commits : i < j /\ CommittedOf(j) # {}

(***************************************************************************)
(* The boundary test and the single-page walk.                             *)
(***************************************************************************)
\* The page holds every observation of the window: newest first from the end
\* down to the start, its earliest record exactly at the start.
SpansWindow(p) ==
    /\ Len(p) > 1
    /\ NewestFirst(p)
    /\ p[1]["time"] = EndTs
    /\ p[Len(p)]["time"] = StartTs

\* C21 as stated: after one fetch answered by a page that spans the window, with
\* its earliest record at the start, the walker is Done.
C21_SinglePageWalkIsDone ==
    (fetches = 1 /\ SpansWindow(batch)) => status = "returned"

\* C21: a first page that spans the window with its earliest record exactly at
\* the start does not end the walk: the walker goes on to a further request,
\* and a walk is Done only after a page whose earliest record lies strictly
\* before the start.
C21_SinglePageWalkContinues ==
    /\ (fetches = 1 /\ SpansWindow(batch)) => status = "running"
    /\ status = "returned" => SetMin(Times(batch)) < StartTs

\* A walk whose first page spanned the window is Done after its second fetch.
C21_Witness ==
    /\ status = "returned"
    /\ fetches = 2
    /\ \E k \in 2..PageLimit :
           Len(data) > k /\ SpansWindow(SubSeq(data, 1, k))

(***************************************************************************)
(* The shape of the record ids.                                            *)
(***************************************************************************)
\* The number of characters of the id after the symbol.
IdTail(id) == Len(id.infix) + Len(id.digits)

\* C22: every record id is the symbol followed directly by the sequence number
\* padded to five digits, so all the ids of one output have the same length.
C22_FixedWidthIds ==
    tpc = "assigned" =>
        \A i \in 1..Len(outFile.rows) :
            LET id == outFile.rows[i]["record_id"]
            IN  /\ id.infix = ""
                /\ Len(id.digits) = 5
                /\ IdTail(id) = IdTail(outFile.rows[1]["record_id"])

(***************************************************************************)
(* The date filter of the daily transformation.                            *)
(***************************************************************************)
\* The positions of the rows of the transformed file whose day lies between
\* START_DATE and END_DATE, in the order of the file.
InRangeRows ==
    SelectSeq([k \in 1..Len(inFile.rows) |-> k],
              LAMBDA k : date_of(inFile.rows[k]["time"]) \in START_DATE..END_DATE)

\* C23: the daily output holds exactly the input rows whose date lies in
\* [START_DATE, END_DATE], both ends included, in the order of the input: none
\* from outside the range, none of the range missing.
C23_DateRangeFilter ==
    (Wrote /\ mode = "daily") =>
        /\ Len(outFile.rows) = Len(InRangeRows)
        /\ \A i \in 1..Len(outFile.rows) :
              /\ SeqNo(i) = InRangeRows[i]
              /\ outFile.rows[i]["date"] = date_of(inFile.rows[InRangeRows[i]]["time"])
              /\ \A c \in OHLC : outFile.rows[i][c] = inFile.rows[InRangeRows[i]][c]

\* A file with a row dated END_DATE and a later row dated after it: the output
\* keeps the first and not the second.
C23_Witness ==
    /\ Wrote
    /\ mode = "daily"
    /\ Len(inFile.rows) = 2
    /\ date_of(inFile.rows[1]["time"]) = END_DATE
    /\ date_of(inFile.rows[2]["time"]) > END_DATE
    /\ Len(outFile.rows) = 1
    /\ outFile.rows[1]["date"] = END_DATE

(***************************************************************************)
(* The end boundary.                                                       *)
(***************************************************************************)
\* C24: in every state of a walk the cursor is at most the end boundary, and,
\* the source answering a request only with records not later than its cursor,
\* no record of the accumulated series is later than the end boundary.
C24_WithinEndBoundary ==
    /\ toTs <= EndTs
    /\ \A i \in 1..Len(data) :
          "time" \in DOMAIN data[i] => data[i]["time"] <= EndTs

\* A walk of two pages has returned a series that starts at the end boundary.
C24_Witness ==
    /\ status = "returned"
    /\ fetches = 2
    /\ Len(data) > 2
    /\ toTs < EndTs
    /\ \E i \in 1..Len(data) : "time" \in DOMAIN data[i] /\ data[i]["time"] = EndTs

(***************************************************************************)
(* The walk repeated against a static source.                              *)
(***************************************************************************)
\* C25: a walk that completes returns the same series, record for record and in
\* the same order, as the earlier completed walk with the same arguments against
\* the same source, whatever request errors either of them met.
C25_RepeatedWalkSameSeries ==
    (status = "returned" /\ earlier # <<>>) => data = earlier[1].series

\* Two completed hourly walks of several pages that met different numbers of
\* request errors.
C25_Witness ==
    /\ status = "returned"
    /\ earlier # <<>>
    /\ fetches > 1
    /\ Len(data) > PageLimit
    /\ retries # earlier[1].failed

(***************************************************************************)
(* The values of the output.                                               *)
(***************************************************************************)
OutPrices == {"open", "high", "low", "close"}
OutVolumes == {"trade_vol_native", "trade_vol_USD", "hr_trade_vol_native",
               "hr_trade_vol_USD"}

\* The number in a cell of the output, in thousandths for a volume; the daily
\* trade_vol_USD is the text of a number with two decimals.
OutNumber(i, c) ==
    IF c = "trade_vol_USD" THEN 10 * outFile.rows[i][c].cents
    ELSE outFile.rows[i][c]

\* C26: no numeric field (prices, native volume, quote volume) of a row of a
\* written output file is negative, in the daily and in the hourly script.
C26_NoNegativeOutput ==
    Wrote =>
        \A i \in 1..Len(outFile.rows) :
            \A c \in (OutPrices \cup OutVolumes) \cap Columns(outFile) :
                OutNumber(i, c) >= 0

(***************************************************************************)
(* The checks of the series after the walk.                                *)
(***************************************************************************)
\* C27: when the walk has returned, a record of its last page came without
\* `close` and was dropped from the series, the checks of the series after the
\* walk have logged a warning about the gap it leaves.
C27_DroppedRecordIsAudited ==
    ( /\ status = "returned"
      /\ \E j \in 1..Len(batch) : "close" \notin DOMAIN batch[j]
      /\ \A i \in 1..Len(data) : "close" \in DOMAIN data[i] )
        => auditLog # {}

(***************************************************************************)
(* The output against the input it was made from.                          *)
(***************************************************************************)
\* The raw column a column of the output was renamed from.
RawName(c) ==
    CASE c = "trade_vol_native" -> "volumefrom"
      [] c = "trade_vol_USD" -> "volumeto"
      [] c = "hr_trade_vol_native" -> "VOL_NATIVE"
      [] c = "hr_trade_vol_USD" -> "VOL_USD"
      [] OTHER -> c

\* C28: every row of a written output with the canonical columns holds, under
\* the names its columns were renamed from, the values of open, high, low,
\* close and the two volumes of the input row it was made from (the row its
\* record id counts).
C28_RoundTrip ==
    (Wrote /\ outFile.cols = CanonicalColumns) =>
        \A i \in 1..Len(outFile.rows) :
            \A c \in (OutPrices \cup OutVolumes) \cap Columns(outFile) :
                OutNumber(i, c) = inFile.rows[SeqNo(i)][RawName(c)]

(***************************************************************************)
(* The cursor from one request to the next.                                *)
(***************************************************************************)
\* C29: an answered request that does not end the walk leaves a cursor strictly
\* earlier than the one it was sent with; stated of the hourly walker, whose
\* next cursor is the earliest timestamp of the page.
C29_CursorStrictlyEarlier ==
    [][(mode = "hourly" /\ fetches' = fetches + 1 /\ status' = "running")
            => toTs' < toTs]_vars

\* C30: a remote call that fails with a request error leaves the accumulated
\* series, the cursor, the last page and the count of answered requests as they
\* were, so that the next request is the same one; and an answered request that
\* does not raise appends the records it accepts of its page, once.
C30_FailedAttemptFrame ==
    [][ /\ (lastErr' \in RequestErrors /\ pageFails' = pageFails + 1)
            => (data' = data /\ toTs' = toTs /\ batch' = batch /\ fetches' = fetches)
        /\ (fetches' = fetches + 1 /\ status' \in {"running", "returned"})
            => data' = data \o (IF mode = "daily" THEN SelectSeq(batch', validate_data)
                                ELSE batch') ]_vars

\* A request of a walk that has already accumulated a page has failed, and the
\* walk goes on.
C30_Witness ==
    /\ lastErr \in RequestErrors
    /\ status = "running"
    /\ fetches > 0
    /\ data # <<>>

====
